---- MODULE Spec2Model ----
(***************************************************************************)
(* A model of src/gm3/util.js of GeoMoose 3 (gm3): the feature filter      *)
(* (featureMatch, inList, inRange), the feature set operations            *)
(* (filterFeatures, matchFeatures, changeFeatures), getFeaturesExtent,     *)
(* the catalog helpers (isLayerOn, getZValue, getLayersByZOrder),          *)
(* configureProjections, getUtmZone, the unit conversions (convertLength,  *)
(* convertArea) and objectsDiffer.                                         *)
(*                                                                         *)
(* Every function of util.js is synchronous and keeps no state of its own, *)
(* so each component has a specification of its own: Init draws the        *)
(* arguments of the call from bounded sets, and the actions are the calls. *)
(*   Spec          featureMatch on one feature and one filter              *)
(*   SpecFeatures  filterFeatures / matchFeatures / changeFeatures         *)
(*   SpecExtent    getFeaturesExtent                                       *)
(*   SpecLayerOn   isLayerOn                                               *)
(*   SpecZOrder    getLayersByZOrder                                       *)
(*   SpecProj      configureProjections, one p4.defs call per step         *)
(*   SpecConvert   convertLength / convertArea                             *)
(*   SpecDiffer    objectsDiffer                                           *)
(*   SpecUtm       configureProjections, then getUtmZone                   *)
(***************************************************************************)
EXTENDS Integers, Sequences, FiniteSets, TLC

VARIABLES
    pc,           \* position of the call: "call", "done" (SpecProj: see there)
    ret,          \* what the call returned (or that it threw)
    feature,      \* featureMatch: the feature argument
    filter,       \* featureMatch / changeFeatures: the filter argument
    features,     \* feature set operations: the caller's array of features
    features0,    \* the caller's array as it was when the call was made
    mbfilter,     \* filterFeatures: the mapbox-gl style filter argument
    patch,        \* changeFeatures: the properties argument
    layerFeatures,\* getFeaturesExtent: mapSource.layers[0].features
    mapSources,   \* isLayerOn / getLayersByZOrder: the mapSources state
    catalog,      \* getLayersByZOrder: the catalog, in Object.keys order
    layer,        \* isLayerOn: the catalog layer definition
    registry,     \* configureProjections: p4's table of definitions
    calls,        \* configureProjections: the p4.defs(name, def) calls made
    utm_zone,     \* configureProjections: the outer loop variable
    north,        \* configureProjections: the inner loop's index into
                  \* ['north', 'south']
    length,       \* convertLength / convertArea: the length or area argument
    srcUnits,     \* convertLength / convertArea: the source unit
    destUnits,    \* convertLength / convertArea: the destination unit
    objA,         \* objectsDiffer: the first object
    objB,         \* objectsDiffer: the second object
    deep,         \* objectsDiffer: whether deep === true
    point         \* getUtmZone: the point [x, y], in tenths of a degree

vars == <<pc, ret, feature, filter, features, features0, mbfilter, patch,
          layerFeatures, mapSources, catalog, layer, registry, calls,
          utm_zone, north, length, srcUnits, destUnits, objA, objB, deep,
          point>>

\* The arguments of the calls a specification does not make.
NoOtherCall ==
    /\ length = 0 /\ srcUnits = "" /\ destUnits = ""
    /\ objA = <<>> /\ objB = <<>> /\ deep = FALSE
    /\ point = <<>>

(***************************************************************************)
(* Bounds of the model.                                                    *)
(***************************************************************************)
NumRange == 1        \* numbers are -NumRange .. NumRange
MaxList == 2         \* longest array of a list clause
MaxClauses == 2      \* most clauses of a filter (besides the match key)
MaxFeatures == 2     \* longest array of features
MaxExprs == 2        \* most expressions of a mapbox-gl filter
MaxGeoms == 2        \* most features of the layer whose extent is taken
MaxSubLayers == 2    \* isLayerOn: most layers of a map source
MaxSrc == 2          \* isLayerOn: most src entries of a catalog layer
MaxNodes == 3        \* getLayersByZOrder: most keys of the catalog
MaxZ == 2            \* getLayersByZOrder: zIndex is 1 .. MaxZ

(***************************************************************************)
(* JavaScript values.  A value carries its type tag; reading a property    *)
(* that an object does not have gives undefined.                           *)
(***************************************************************************)
Undefined == [t |-> "undefined"]
Null == [t |-> "null"]
Num(n) == [t |-> "number", n |-> n]
Str(s) == [t |-> "string", s |-> s]
Arr(a) == [t |-> "array", a |-> a]
\* An object literal of a typed clause: {type, value, min, max}; a key the
\* literal leaves out reads as undefined.
Obj(type, value, min, max) ==
    [t |-> "object", type |-> type, value |-> value, min |-> min, max |-> max]

\* A normal return of a boolean, and a thrown TypeError.
Ret(v) == [thrown |-> FALSE, v |-> v]
Throw == [thrown |-> TRUE, v |-> FALSE]
NoRet == [thrown |-> FALSE, v |-> FALSE, none |-> TRUE]

\* obj[key] of a plain object modelled as a function on its own keys.
Get(obj, key) == IF key \in DOMAIN obj THEN obj[key] ELSE Undefined

\* a === b. Arrays and objects are equal only to themselves, and no property
\* value of a feature is the array or object a filter literal holds.
StrictEquals(a, b) == a.t \notin {"array", "object"} /\ a = b

\* ToNumber for the relational operators: null is +0, undefined is NaN, and
\* a non-numeric string ("any", "all": the only strings of the model) is NaN.
IsNaN(a) == a.t \notin {"number", "null"}
ToNumber(a) == IF a.t = "number" THEN a.n ELSE 0
\* a < b, false when either side is NaN.
Lt(a, b) == ~IsNaN(a) /\ ~IsNaN(b) /\ ToNumber(a) < ToNumber(b)

\* list.indexOf(value) >= 0: indexOf compares with ===. A list that is
\* undefined, null, a number or a plain object has no indexOf: TypeError.
inList(value, list) ==
    IF list.t = "array"
    THEN Ret(\E i \in 1..Len(list.a) : StrictEquals(list.a[i], value))
    ELSE Throw

\* inRange(value, min = null, max = null): an undefined argument takes the
\* default null. The final "return true" follows the branches below.
inRange(value, min0, max0) ==
    LET min == IF min0 = Undefined THEN Null ELSE min0
        max == IF max0 = Undefined THEN Null ELSE max0
    IN  IF min # Null /\ max # Null THEN Lt(min, value) /\ Lt(value, max)
        ELSE IF min = Null THEN Lt(value, max)
        ELSE IF max = Null THEN Lt(min, value)
        ELSE TRUE

\* The body of featureMatch's loop up to the two short-circuit tests: the
\* value v of one filter entry. Reading filter_def.type throws when
\* filter_def is undefined or null.
clauseValue(feat, filter_key, filter_def) ==
    LET prop_val == Get(feat.properties, filter_key)
    IN  IF filter_def.t \in {"undefined", "null"} THEN Throw
        ELSE IF filter_def.t = "object" /\ filter_def.type = Str("range")
            THEN Ret(inRange(prop_val, filter_def.min, filter_def.max))
        ELSE IF filter_def.t = "object" /\ filter_def.type = Str("list")
            THEN inList(prop_val, filter_def.value)
        ELSE IF filter_def.t = "object" /\ filter_def.type = Str("equals")
            THEN Ret(StrictEquals(filter_def.value, prop_val))
        ELSE IF filter_def.t = "array"
            THEN inList(prop_val, filter_def)
        ELSE Ret(StrictEquals(filter_def, prop_val))

\* filter[key] of a filter modelled as its entries in for-in order.
filterGet(flt, key) ==
    IF \E i \in 1..Len(flt) : flt[i].key = key
    THEN flt[CHOOSE i \in 1..Len(flt) : flt[i].key = key].def
    ELSE Undefined

RECURSIVE matchLoop(_, _, _, _)
\* The for-in loop of featureMatch from entry i on.
matchLoop(feat, flt, match_all, i) ==
    IF i > Len(flt) THEN Ret(match_all)
    ELSE LET c == clauseValue(feat, flt[i].key, flt[i].def)
         IN  IF c.thrown THEN Throw
             ELSE IF c.v /\ ~match_all THEN Ret(TRUE)
             ELSE IF ~c.v /\ match_all THEN Ret(FALSE)
             ELSE matchLoop(feat, flt, match_all, i + 1)

featureMatch(feat, flt) ==
    LET match_all == IF filterGet(flt, "match") = Str("any") THEN FALSE ELSE TRUE
    IN  matchLoop(feat, flt, match_all, 1)

(***************************************************************************)
(* The arguments featureMatch is called with.                              *)
(***************************************************************************)
Numbers == {Num(n) : n \in -NumRange..NumRange}
ClauseKeys == {"a", "b"}
ModeValues == {Str("any"), Str("all")}

\* Arrays of a list clause.
ListElems == {Undefined, Num(0)}
Lists == {Arr(a) : a \in UNION {[1..n -> ListElems] : n \in 0..MaxList}}
RangeBounds == {Undefined, Null, Num(-NumRange), Num(NumRange)}
ScalarDefs == {Undefined, Null} \cup Numbers
RangeDefs ==
    {Obj(Str("range"), Undefined, lo, hi) : lo \in RangeBounds, hi \in RangeBounds}
ListDefs ==
    {Obj(Str("list"), l, Undefined, Undefined) : l \in Lists \cup {Undefined}}
EqualsDefs ==
    {Obj(Str("equals"), v, Undefined, Undefined) : v \in {Undefined} \cup Numbers}
ClauseDefs == ScalarDefs \cup Lists \cup RangeDefs \cup ListDefs \cup EqualsDefs

\* The clauses of a filter: distinct keys, each with a definition.
KeySeqs(n) == {ks \in [1..n -> ClauseKeys] : \A i, j \in 1..n : i # j => ks[i] # ks[j]}
ClauseSeqs ==
    UNION {{[i \in 1..n |-> [key |-> ks[i], def |-> ds[i]]] :
                ks \in KeySeqs(n), ds \in [1..n -> ClauseDefs]} :
           n \in 0..MaxClauses}

\* A filter literal: its clauses, and the match key (if any) before or after.
Filters ==
    ClauseSeqs
    \cup {<<[key |-> "match", def |-> m]>> \o s : m \in ModeValues, s \in ClauseSeqs}
    \cup {s \o <<[key |-> "match", def |-> m]>> : m \in ModeValues, s \in ClauseSeqs}

\* The properties of a feature: numbers under a and b, and possibly a
\* property that is itself named match.
PropertySets ==
    {p \in UNION {[D -> Numbers \cup ModeValues] : D \in SUBSET {"a", "b", "match"}} :
        /\ \A k \in DOMAIN p \cap {"a", "b"} : p[k] \in Numbers
        /\ \A k \in DOMAIN p \cap {"match"} : p[k] \in ModeValues
        /\ ("b" \in DOMAIN p => p["b"] = Num(0))}

Init ==
    /\ pc = "call"
    /\ ret = NoRet
    /\ \E p \in PropertySets : feature = [properties |-> p]
    /\ filter \in Filters
    /\ features = <<>> /\ features0 = <<>> /\ mbfilter = <<>> /\ patch = <<>>
    /\ layerFeatures = <<>> /\ mapSources = Undefined /\ catalog = <<>>
    /\ layer = Undefined /\ registry = <<>> /\ calls = <<>>
    /\ utm_zone = 0 /\ north = 0
    /\ NoOtherCall

FeatureMatch ==
    /\ pc = "call"
    /\ ret' = featureMatch(feature, filter)
    /\ pc' = "done"
    /\ UNCHANGED <<feature, filter, features, features0, mbfilter, patch,
                   layerFeatures, mapSources, catalog, layer, registry, calls,
                   utm_zone, north, length, srcUnits, destUnits,
                   objA, objB, deep, point>>

Next == FeatureMatch

Spec == Init /\ [][Next]_vars

(***************************************************************************)
(* Claims about featureMatch (checked under Spec).                         *)
(***************************************************************************)
\* The clauses of the filter: its entries other than the match key, which
\* names the mode.
Clauses(flt) == SelectSeq(flt, LAMBDA e : e.key # "match")
AnyMode(flt) == filterGet(flt, "match") = Str("any")
\* A definition whose evaluation cannot throw: neither undefined nor null,
\* and a typed list clause carries an array.
Evaluable(def) ==
    /\ def.t \notin {"undefined", "null"}
    /\ (def.t = "object" /\ def.type = Str("list") => def.value.t = "array")
ClauseTrue(feat, e) == clauseValue(feat, e.key, e.def).v

\* C1: in All mode (filter.match is not 'any') featureMatch returns true iff
\* every clause of the filter evaluates true on the feature; for two clauses
\* A and B the result is featureMatch(f, {A}) AND featureMatch(f, {B}).
\* Stated for the filters all of whose clauses can be evaluated.
C1_AllModeIsConjunction ==
    (/\ pc = "done"
     /\ ~AnyMode(filter)
     /\ \A i \in 1..Len(Clauses(filter)) : Evaluable(Clauses(filter)[i].def))
    => LET cs == Clauses(filter)
       IN  /\ ret = Ret(\A i \in 1..Len(cs) : ClauseTrue(feature, cs[i]))
           /\ Len(cs) = 2 =>
                ret = Ret(/\ featureMatch(feature, <<cs[1]>>).v
                          /\ featureMatch(feature, <<cs[2]>>).v)

\* C2: in Any mode (filter.match === 'any') featureMatch returns true iff at
\* least one clause evaluates true on the feature, so with no clause at all
\* it returns false; and the filter {} (All mode, no clause) returns true.
\* Stated for the filters all of whose clauses can be evaluated.
C2_AnyModeIsDisjunction ==
    (/\ pc = "done"
     /\ \A i \in 1..Len(Clauses(filter)) : Evaluable(Clauses(filter)[i].def))
    => LET cs == Clauses(filter)
       IN  /\ AnyMode(filter) =>
                ret = Ret(\E i \in 1..Len(cs) : ClauseTrue(feature, cs[i]))
           /\ Len(filter) = 0 => ret = Ret(TRUE)

\* A bound of a range clause that is not given: left out, or null.
Absent(b) == b \in {Undefined, Null}

\* C3: a range clause is true iff min < value < max when both bounds are
\* given, iff value < max when min is absent, iff min < value when max is
\* absent, and true for every value when both are absent. Stated for a
\* filter that is one range clause on a numeric property of the feature.
C3_RangeClause ==
    (/\ pc = "done"
     /\ Len(filter) = 1
     /\ filter[1].key \in DOMAIN feature.properties \cap ClauseKeys
     /\ filter[1].def \in RangeDefs)
    => LET value == feature.properties[filter[1].key].n
           min == filter[1].def.min
           max == filter[1].def.max
       IN  ret = Ret(/\ ~Absent(min) => min.n < value
                     /\ ~Absent(max) => value < max.n)

\* C4: a clause of any shape whose field is not a key of feature.properties
\* evaluates false, and featureMatch does not throw, whatever the clause
\* carries. Stated for a filter that is that one clause, the clause being a
\* typed one (with or without its value or bounds), a number or an array.
C4_UnknownFieldFails ==
    (/\ pc = "done"
     /\ Len(filter) = 1
     /\ filter[1].key \in ClauseKeys
     /\ filter[1].def \notin {Undefined, Null}
     /\ filter[1].key \notin DOMAIN feature.properties)
    => ret = Ret(FALSE)

(***************************************************************************)
(* Feature set operations: filterFeatures, matchFeatures, changeFeatures.  *)
(* A feature is an object with an identity (ref), its properties and its   *)
(* geometry; an array is its items and whether the call allocated it.      *)
(***************************************************************************)
\* One expression [op, key, value] of a mapbox-gl style filter, as the
\* function createFilter compiles evaluates it: p[key] === value for "==",
\* p[key] !== value for "!=", with p = feature.properties.
filterExpr(f, e) ==
    IF e.op = "==" THEN StrictEquals(Get(f.properties, e.key), e.value)
    ELSE ~StrictEquals(Get(f.properties, e.key), e.value)

\* filter_function = createFilter(['all'].concat(filter)): every expression
\* of the filter holds on the feature.
filter_function(flt, f) == \A i \in 1..Len(flt) : filterExpr(f, flt[i])

\* The test of filterFeatures' loop, inverse !== filter_function(feature),
\* with the wrong comparison.
keepFeatureNegated(inverse, matched) == inverse = matched

\* The test of filterFeatures' loop: inverse !== filter_function(feature).
keepFeature(inverse, matched) == inverse # matched

RECURSIVE filterFrom(_, _, _, _, _)
\* The loop of filterFeatures from feature i on.
filterFrom(fs, flt, inverse, i, new_features) ==
    IF i > Len(fs) THEN new_features
    ELSE filterFrom(fs, flt, inverse, i + 1,
            IF keepFeature(inverse, filter_function(flt, fs[i]))
            THEN Append(new_features, fs[i])
            ELSE new_features)

filterFeatures(fs, flt, inverse) ==
    [fresh |-> TRUE, items |-> filterFrom(fs, flt, inverse, 1, <<>>)]

\* matchFeatures: the features array itself when there is no filter.
matchFeatures(fs, flt) ==
    IF flt = Null THEN [fresh |-> FALSE, items |-> fs]
    ELSE filterFeatures(fs, flt.a, FALSE)

\* Object.assign({}, feature.properties, properties) with the two sources
\* in the wrong order, so that the feature's own values win.
newPropsFeatureWins(props, properties) ==
    [k \in DOMAIN props \cup DOMAIN properties |->
        IF k \in DOMAIN props THEN props[k] ELSE properties[k]]

\* new_props = Object.assign({}, feature.properties, properties): the keys
\* of both, a later source overwriting an earlier one.
newProps(props, properties) ==
    [k \in DOMAIN props \cup DOMAIN properties |->
        IF k \in DOMAIN properties THEN properties[k] ELSE props[k]]

\* Object.assign({}, feature, {properties: new_props}): a new object (ref)
\* with the feature's own keys and the new properties.
newFeature(f, new_props, ref) ==
    [f EXCEPT !.ref = ref, !.properties = new_props]

RECURSIVE changeFrom(_, _, _, _, _)
\* The loop of changeFeatures from feature i on; a TypeError thrown by
\* featureMatch ends the call. Objects allocated by the call get the refs
\* after those of the caller's features.
changeFrom(fs, flt, properties, i, new_features) ==
    IF i > Len(fs) THEN [thrown |-> FALSE, fresh |-> TRUE, items |-> new_features]
    ELSE LET m == featureMatch(fs[i], flt)
         IN  IF m.thrown THEN [thrown |-> TRUE, fresh |-> TRUE, items |-> <<>>]
             ELSE changeFrom(fs, flt, properties, i + 1,
                    IF m.v
                    THEN Append(new_features,
                            newFeature(fs[i],
                                       newProps(fs[i].properties, properties),
                                       Len(fs) + i))
                    ELSE Append(new_features, fs[i]))

changeFeatures(fs, flt, properties) == changeFrom(fs, flt, properties, 1, <<>>)

\* The arguments of the feature set operations.
FeatureValues == {Num(0), Num(1)}
FeatureProps == UNION {[D -> FeatureValues] : D \in SUBSET ClauseKeys}
FeatureArrays ==
    UNION {{[i \in 1..n |-> [ref |-> i, properties |-> ps[i], geometry |-> i]] :
                ps \in [1..n -> FeatureProps]} : n \in 0..MaxFeatures}
FilterExprs == [op : {"==", "!="}, key : ClauseKeys, value : {Num(0)}]
MapboxFilters ==
    {Null} \cup {Arr(a) : a \in UNION {[1..n -> FilterExprs] : n \in 0..MaxExprs}}
\* The filters changeFeatures is called with: no entry, one entry of each
\* shape, two shorthand entries, or the match key alone.
ChangeDefs ==
    {Null, Num(0), Arr(<<Num(0), Num(1)>>),
     Obj(Str("equals"), Num(1), Undefined, Undefined),
     Obj(Str("range"), Undefined, Undefined, Num(1)),
     Obj(Str("list"), Arr(<<Num(1)>>), Undefined, Undefined)}
ChangeFilters ==
    {<<>>, <<[key |-> "match", def |-> Str("any")]>>,
     <<[key |-> "a", def |-> Num(0)], [key |-> "b", def |-> Num(1)]>>}
    \cup {<<[key |-> k, def |-> d]>> : k \in ClauseKeys, d \in ChangeDefs}
Patches == UNION {[D -> {Num(1)}] : D \in SUBSET ClauseKeys}

InitFeatures ==
    /\ ret = NoRet
    /\ features \in FeatureArrays
    /\ features0 = features
    /\ \/ pc = "filter" /\ mbfilter \in MapboxFilters
          /\ filter = <<>> /\ patch = <<>>
       \/ pc = "change" /\ mbfilter = Null
          /\ filter \in ChangeFilters /\ patch \in Patches
    /\ feature = Undefined
    /\ layerFeatures = <<>> /\ mapSources = Undefined /\ catalog = <<>>
    /\ layer = Undefined /\ registry = <<>> /\ calls = <<>>
    /\ utm_zone = 0 /\ north = 0
    /\ NoOtherCall

FeaturesFrame ==
    UNCHANGED <<feature, filter, features, features0, mbfilter, patch,
                layerFeatures, mapSources, catalog, layer, registry, calls,
                utm_zone, north, length, srcUnits, destUnits,
                objA, objB, deep, point>>

\* filterFeatures(features, filter, inverse) with inverse given.
FilterFeatures ==
    /\ pc = "filter" /\ mbfilter # Null
    /\ \E inverse \in BOOLEAN :
        ret' = [op |-> "filterFeatures", inverse |-> inverse, thrown |-> FALSE,
                value |-> filterFeatures(features, mbfilter.a, inverse)]
    /\ pc' = "done"
    /\ FeaturesFrame

\* filterFeatures(features, filter): inverse takes its default, true.
FilterFeaturesDefault ==
    /\ pc = "filter" /\ mbfilter # Null
    /\ ret' = [op |-> "filterFeatures", inverse |-> TRUE, thrown |-> FALSE,
               value |-> filterFeatures(features, mbfilter.a, TRUE)]
    /\ pc' = "done"
    /\ FeaturesFrame

MatchFeatures ==
    /\ pc = "filter"
    /\ ret' = [op |-> "matchFeatures", inverse |-> FALSE, thrown |-> FALSE,
               value |-> matchFeatures(features, mbfilter)]
    /\ pc' = "done"
    /\ FeaturesFrame

ChangeFeatures ==
    /\ pc = "change"
    /\ LET r == changeFeatures(features, filter, patch)
       IN  ret' = [op |-> "changeFeatures", inverse |-> FALSE, thrown |-> r.thrown,
                   value |-> [fresh |-> r.fresh, items |-> r.items]]
    /\ pc' = "done"
    /\ FeaturesFrame

NextFeatures ==
    \/ FilterFeatures
    \/ FilterFeaturesDefault
    \/ MatchFeatures
    \/ ChangeFeatures

SpecFeatures == InitFeatures /\ [][NextFeatures]_vars

Refs(items) == {items[i].ref : i \in 1..Len(items)}

\* C5: filterFeatures(fs, spec, inverse) returns a new sequence that is the
\* subsequence of fs, in input order, of the features f with
\* predicate(f) != inverse, and leaves fs and its elements unchanged; the
\* results for inverse = true and inverse = false partition fs.
C5_FilterFeaturesSubsequence ==
    (pc = "done" /\ ret.op = "filterFeatures")
    => /\ ret.value.fresh
       /\ ret.value.items =
            SelectSeq(features0,
                      LAMBDA f : filter_function(mbfilter.a, f) # ret.inverse)
       /\ features = features0
       /\ LET out == filterFeatures(features0, mbfilter.a, TRUE).items
              in == filterFeatures(features0, mbfilter.a, FALSE).items
          IN  /\ Len(out) + Len(in) = Len(features0)
              /\ \A i \in 1..Len(features0) :
                    (features0[i].ref \in Refs(out)) # (features0[i].ref \in Refs(in))

\* C5 witness: a call that kept one feature and dropped another.
C5_Witness ==
    /\ pc = "done" /\ ret.op = "filterFeatures"
    /\ Len(features0) = 2 /\ Len(ret.value.items) = 1
    /\ Len(mbfilter.a) > 0

minFirstWins(x, y) == IF x = Null THEN Num(y) ELSE x

\* let min = function(x, y): y when x is null or y < x, else x.
min(x, y) == IF x = Null \/ y < x.n THEN Num(y) ELSE x

\* let max = function(x, y): y when x is null or y > x, else x.
max(x, y) == IF x = Null \/ y > x.n THEN Num(y) ELSE x

update_bounds(bounds, x, y) ==
    <<min(bounds[1], x), min(bounds[2], y), max(bounds[3], x), max(bounds[4], y)>>

RECURSIVE updateEach(_, _, _)
\* for(let pt of pts) update_bounds(pt[0], pt[1]), from point i on.
updateEach(bounds, pts, i) ==
    IF i > Len(pts) THEN bounds
    ELSE updateEach(update_bounds(bounds, pts[i][1], pts[i][2]), pts, i + 1)

RECURSIVE updateRings(_, _, _)
\* for(let ring of geom.coordinates) for(let pt of ring) ..., from ring i on.
updateRings(bounds, rings, i) ==
    IF i > Len(rings) THEN bounds
    ELSE updateRings(updateEach(bounds, rings[i], 1), rings, i + 1)

\* The body of the loop over layer.features for one geometry.
updateGeom(bounds, geom) ==
    IF geom.type = "Point"
        THEN update_bounds(bounds, geom.coordinates[1], geom.coordinates[2])
    ELSE IF geom.type = "LineString"
        THEN updateEach(bounds, geom.coordinates, 1)
    ELSE IF geom.type = "Polygon" \/ geom.type = "MultiLineString"
        THEN updateRings(bounds, geom.coordinates, 1)
    ELSE bounds

RECURSIVE extentFrom(_, _, _)
extentFrom(bounds, fs, i) ==
    IF i > Len(fs) THEN bounds
    ELSE extentFrom(updateGeom(bounds, fs[i].geometry), fs, i + 1)

\* getFeaturesExtent(mapSource) with lf = mapSource.layers[0].features,
\* which may be undefined.
getFeaturesExtent(lf) ==
    IF lf.t = "array" THEN extentFrom(<<Null, Null, Null, Null>>, lf.a, 1)
    ELSE <<Null, Null, Null, Null>>

\* The geometries of the model: coordinates 0 and 1; lines of up to two
\* points; polygons and multi-lines of up to two rings of one point; and
\* multi-points, which getFeaturesExtent does not read.
CoordValues == {0, 1}
Points == CoordValues \X CoordValues
Lines == UNION {[1..n -> {<<0, 1>>, <<1, 0>>}] : n \in 0..2}
RingLists == UNION {[1..n -> {<<(<<0, 0>>)>>, <<(<<1, 1>>)>>}] : n \in 0..2}
PointGeoms == {[type |-> "Point", coordinates |-> pt] : pt \in Points}
LineGeoms == {[type |-> "LineString", coordinates |-> l] : l \in Lines}
RingGeoms ==
    {[type |-> ty, coordinates |-> r] :
        ty \in {"Polygon", "MultiLineString"}, r \in RingLists}
OtherGeoms == {[type |-> "MultiPoint", coordinates |-> <<pt>>] : pt \in Points}

InitExtent ==
    /\ pc = "build"
    /\ ret = NoRet
    /\ layerFeatures \in {Undefined, Arr(<<>>)}
    /\ feature = Undefined /\ filter = <<>>
    /\ features = <<>> /\ features0 = <<>> /\ mbfilter = <<>> /\ patch = <<>>
    /\ mapSources = Undefined /\ catalog = <<>>
    /\ layer = Undefined /\ registry = <<>> /\ calls = <<>>
    /\ utm_zone = 0 /\ north = 0
    /\ NoOtherCall

ExtentFrame ==
    UNCHANGED <<feature, filter, features, features0, mbfilter, patch,
                mapSources, catalog, layer, registry, calls, utm_zone, north,
                length, srcUnits, destUnits, objA, objB, deep, point>>

\* mapSource.layers[0].features with one more feature of geometry geom.
withFeature(lf, geom) == Arr(Append(lf.a, [geometry |-> geom]))
CanAdd == pc = "build" /\ layerFeatures.t = "array" /\ Len(layerFeatures.a) < MaxGeoms

\* The layer gets one more feature: a Point, ...
AddPoint ==
    /\ CanAdd
    /\ \E g \in PointGeoms : layerFeatures' = withFeature(layerFeatures, g)
    /\ UNCHANGED <<pc, ret>>
    /\ ExtentFrame

\* ... a LineString, ...
AddLineString ==
    /\ CanAdd
    /\ \E g \in LineGeoms : layerFeatures' = withFeature(layerFeatures, g)
    /\ UNCHANGED <<pc, ret>>
    /\ ExtentFrame

\* ... a Polygon or a MultiLineString, ...
AddRings ==
    /\ CanAdd
    /\ \E g \in RingGeoms : layerFeatures' = withFeature(layerFeatures, g)
    /\ UNCHANGED <<pc, ret>>
    /\ ExtentFrame

\* ... or a geometry of another kind.
AddOther ==
    /\ CanAdd
    /\ \E g \in OtherGeoms : layerFeatures' = withFeature(layerFeatures, g)
    /\ UNCHANGED <<pc, ret>>
    /\ ExtentFrame

GetFeaturesExtent ==
    /\ pc = "build"
    /\ ret' = getFeaturesExtent(layerFeatures)
    /\ pc' = "done"
    /\ UNCHANGED layerFeatures
    /\ ExtentFrame

NextExtent ==
    \/ AddPoint
    \/ AddLineString
    \/ AddRings
    \/ AddOther
    \/ GetFeaturesExtent

SpecExtent == InitExtent /\ [][NextExtent]_vars

\* The coordinate pairs of a geometry that the claim counts.
PairsOf(geom) ==
    IF geom.type = "Point" THEN {geom.coordinates}
    ELSE IF geom.type = "LineString"
        THEN {geom.coordinates[i] : i \in 1..Len(geom.coordinates)}
    ELSE IF geom.type \in {"Polygon", "MultiLineString"}
        THEN UNION {{geom.coordinates[i][j] : j \in 1..Len(geom.coordinates[i])} :
                        i \in 1..Len(geom.coordinates)}
    ELSE {}
AllPairs(fs) == UNION {PairsOf(fs[i].geometry) : i \in 1..Len(fs)}
Least(S) == CHOOSE v \in S : \A w \in S : v <= w
Greatest(S) == CHOOSE v \in S : \A w \in S : v >= w
Shuffles(n) == {p \in [1..n -> 1..n] : \A i, j \in 1..n : i # j => p[i] # p[j]}

\* C7: getFeaturesExtent returns [minX, minY, maxX, maxY], the least and
\* greatest x and y over the coordinate pairs of the Point, LineString,
\* Polygon and MultiLineString geometries; other geometries contribute
\* nothing; it is [null, null, null, null] when no pair is visited; and it is
\* the same for every permutation of the features.
C7_Extent ==
    pc = "done"
    => LET fs == IF layerFeatures.t = "array" THEN layerFeatures.a ELSE <<>>
           pairs == AllPairs(fs)
           xs == {pt[1] : pt \in pairs}
           ys == {pt[2] : pt \in pairs}
       IN  /\ pairs = {} => ret = <<Null, Null, Null, Null>>
           /\ pairs # {} =>
                ret = <<Num(Least(xs)), Num(Least(ys)),
                        Num(Greatest(xs)), Num(Greatest(ys))>>
           /\ \A p \in Shuffles(Len(fs)) :
                getFeaturesExtent(Arr([i \in 1..Len(fs) |-> fs[p[i]]])) = ret

\* C7 witness: an extent with minX < maxX and minY < maxY taken over two
\* features, the first of which does not hold the least x.
C7_Witness ==
    /\ pc = "done" /\ layerFeatures.t = "array"
    /\ Len(layerFeatures.a) = 2
    /\ ret = <<Num(0), Num(0), Num(1), Num(1)>>
    /\ layerFeatures.a[1].geometry = [type |-> "Point", coordinates |-> <<1, 0>>]
    /\ layerFeatures.a[2].geometry.type = "Polygon"

(***************************************************************************)
(* isLayerOn, getZValue, getLayersByZOrder.  mapSources is undefined or an *)
(* object {name: {zIndex, layers: [{name, on}]}}; a catalog layer has      *)
(* src: [{mapSourceName, layerName}].                                      *)
(***************************************************************************)
\* The inner loop of isLayerOn with is_on = layer.on in place of
\* is_on = (is_on && layer.on): the last layer looked at decides.
layersLoopLastWins(layers, layerName, j, is_on) ==
    IF \E k \in j..Len(layers) : layers[k].name = layerName
    THEN layers[CHOOSE k \in j..Len(layers) :
                    /\ layers[k].name = layerName
                    /\ \A m \in (k + 1)..Len(layers) : layers[m].name # layerName].on
    ELSE is_on

RECURSIVE layersLoop(_, _, _, _)
\* for(const layer of map_source.layers), from layer j on: is_on after it.
layersLoop(layers, layerName, j, is_on) ==
    IF j > Len(layers) THEN is_on
    ELSE layersLoop(layers, layerName, j + 1,
            IF layers[j].name = layerName THEN is_on /\ layers[j].on ELSE is_on)

RECURSIVE srcLoop(_, _, _, _)
\* for(const src of layer.src), from entry i on.
srcLoop(ms, src, i, is_on) ==
    IF i > Len(src) THEN is_on
    ELSE IF src[i].mapSourceName \in DOMAIN ms
        THEN srcLoop(ms, src, i + 1,
                layersLoop(ms[src[i].mapSourceName].layers, src[i].layerName,
                           1, is_on))
        ELSE FALSE

isLayerOn(ms, lyr) ==
    IF ms.t # "object" THEN FALSE
    ELSE srcLoop(ms.o, lyr.src, 1, TRUE)

\* getZValue: the zIndex of the map source of layer.src[0].
getZValue(ms, lyr) == ms.o[lyr.src[1].mapSourceName].zIndex

\* The comparator of getLayersByZOrder with the test turned around.
compareAscending(a, b) == IF a.zIndex < b.zIndex THEN -1 ELSE 1

\* The comparator handed to layers.sort.
compare(a, b) == IF a.zIndex > b.zIndex THEN -1 ELSE 1

RECURSIVE collect(_, _, _, _)
\* The loop over Object.keys(catalog), from key i on.
collect(cat, ms, i, layers) ==
    IF i > Len(cat) THEN layers
    ELSE collect(cat, ms, i + 1,
            IF /\ cat[i] # Null
               /\ cat[i].children = Undefined
               /\ isLayerOn(ms, cat[i])
            THEN Append(layers, [zIndex |-> getZValue(ms, cat[i]), layer |-> cat[i]])
            ELSE layers)

\* Array.prototype.sort leaves the algorithm to the engine, and the
\* comparator never returns 0. Two engines' sorts of a short array:
\* V8's InsertionSort (up to 6.x) ...
RECURSIVE insertLinear(_, _, _)
insertLinear(a, element, j) ==
    IF j >= 1 /\ compare(a[j], element) > 0
    THEN insertLinear(a, element, j - 1)
    ELSE SubSeq(a, 1, j) \o <<element>> \o SubSeq(a, j + 1, Len(a))

RECURSIVE insertionSort(_, _, _)
insertionSort(a, i, sorted) ==
    IF i > Len(a) THEN sorted
    ELSE insertionSort(a, i + 1, insertLinear(sorted, a[i], Len(sorted)))

\* ... and the binary insertion sort of V8's TimSort (from 7.0 on).
RECURSIVE insertBinary(_, _, _, _)
insertBinary(a, pivot, left, right) ==
    IF left < right
    THEN LET mid == left + ((right - left) \div 2)
         IN  IF compare(pivot, a[mid + 1]) < 0
             THEN insertBinary(a, pivot, left, mid)
             ELSE insertBinary(a, pivot, mid + 1, right)
    ELSE SubSeq(a, 1, left) \o <<pivot>> \o SubSeq(a, left + 1, Len(a))

RECURSIVE binaryInsertionSort(_, _, _)
binaryInsertionSort(a, i, sorted) ==
    IF i > Len(a) THEN sorted
    ELSE binaryInsertionSort(a, i + 1, insertBinary(sorted, a[i], 0, Len(sorted)))

\* The results layers.sort(comparator) can have.
sorted(layers) ==
    {insertionSort(layers, 1, <<>>), binaryInsertionSort(layers, 1, <<>>)}

\* The results getLayersByZOrder(catalog, mapSources) can have.
getLayersByZOrder(cat, ms) == sorted(collect(cat, ms, 1, <<>>))

\* The arguments: map sources A and B with layers l1 and l2; a catalog
\* layer refers to l1 of a map source.
SourceNames == {"A", "B"}
LayerNames == {"l1", "l2"}
SourceRefs == [mapSourceName : SourceNames, layerName : {"l1"}]
SubLayerLists(names, n) ==
    UNION {[1..k -> [name : names, on : BOOLEAN]] : k \in 0..n}
MapSourceObjects(zs, names, n) ==
    UNION {[D -> [zIndex : zs, layers : SubLayerLists(names, n)]] :
                D \in SUBSET SourceNames}
MapSourceStates(zs, names, n) ==
    {Undefined} \cup {[t |-> "object", o |-> o] : o \in MapSourceObjects(zs, names, n)}
SrcLists(refs, lo, hi) == UNION {[1..k -> refs] : k \in lo..hi}

InitLayerOn ==
    /\ pc = "call"
    /\ ret = NoRet
    /\ mapSources \in MapSourceStates({1}, LayerNames, MaxSubLayers)
    /\ \E src \in SrcLists(SourceRefs, 0, MaxSrc) : layer = [src |-> src]
    /\ catalog = <<>>
    /\ feature = Undefined /\ filter = <<>>
    /\ features = <<>> /\ features0 = <<>> /\ mbfilter = <<>> /\ patch = <<>>
    /\ layerFeatures = <<>> /\ registry = <<>> /\ calls = <<>>
    /\ utm_zone = 0 /\ north = 0
    /\ NoOtherCall

IsLayerOn ==
    /\ pc = "call"
    /\ ret' = isLayerOn(mapSources, layer)
    /\ pc' = "done"
    /\ UNCHANGED <<feature, filter, features, features0, mbfilter, patch,
                   layerFeatures, mapSources, catalog, layer, registry, calls,
                   utm_zone, north, length, srcUnits, destUnits,
                   objA, objB, deep, point>>

NextLayerOn == IsLayerOn

SpecLayerOn == InitLayerOn /\ [][NextLayerOn]_vars

\* The layers of the map source a SourceRef names that carry its layerName.
Named(ms, ref) ==
    LET ls == ms.o[ref.mapSourceName].layers
    IN  {ls[j] : j \in {j \in 1..Len(ls) : ls[j].name = ref.layerName}}
SourcePresent(ms, ref) == ms.t = "object" /\ ref.mapSourceName \in DOMAIN ms.o

\* C8 as claimed: isLayerOn returns true iff for every SourceRef of
\* layer.src the map source exists AND has a sub-layer of that layerName
\* whose on flag is true; false when a map source or mapSources is absent.
C8_Original ==
    pc = "done"
    => ret = (/\ mapSources.t = "object"
              /\ \A i \in 1..Len(layer.src) :
                    /\ SourcePresent(mapSources, layer.src[i])
                    /\ \E l \in Named(mapSources, layer.src[i]) : l.on)

\* C8 as amended: isLayerOn returns true iff mapSources is present and, for
\* every SourceRef of layer.src, the map source exists and none of its
\* sub-layers of that layerName is off (a SourceRef whose layerName the map
\* source does not have does not turn the layer off).
C8_IsLayerOn ==
    pc = "done"
    => ret = (/\ mapSources.t = "object"
              /\ \A i \in 1..Len(layer.src) :
                    /\ SourcePresent(mapSources, layer.src[i])
                    /\ \A l \in Named(mapSources, layer.src[i]) : l.on)

\* C8 witness: a layer of two sources that is on, one of its SourceRefs
\* naming a sub-layer its map source does not have.
C8_Witness ==
    /\ pc = "done" /\ ret = TRUE
    /\ Len(layer.src) = 2
    /\ Named(mapSources, layer.src[1]) # {}
    /\ Named(mapSources, layer.src[2]) = {}

\* The catalog: a null entry, a group (it has children), or a layer with
\* one src entry or with two of different map sources; key i of the catalog
\* is its i-th entry.
CatalogNodes(i) ==
    {Null, [id |-> i, children |-> Arr(<<>>), src |-> <<>>]}
    \cup {[id |-> i, children |-> Undefined, src |-> src] :
            src \in {s \in SrcLists(SourceRefs, 1, 2) :
                        Len(s) = 2 => s[1].mapSourceName # s[2].mapSourceName}}
Catalogs ==
    UNION {{c \in [1..n -> UNION {CatalogNodes(i) : i \in 1..n}] :
                \A i \in 1..n : c[i] \in CatalogNodes(i)} : n \in 0..MaxNodes}

InitZOrder ==
    /\ pc = "call"
    /\ ret = <<>>
    /\ mapSources \in MapSourceStates(1..MaxZ, {"l1"}, 1)
    /\ catalog \in Catalogs
    /\ layer = Undefined
    /\ feature = Undefined /\ filter = <<>>
    /\ features = <<>> /\ features0 = <<>> /\ mbfilter = <<>> /\ patch = <<>>
    /\ layerFeatures = <<>> /\ registry = <<>> /\ calls = <<>>
    /\ utm_zone = 0 /\ north = 0
    /\ NoOtherCall

GetLayersByZOrder ==
    /\ pc = "call"
    /\ ret' \in getLayersByZOrder(catalog, mapSources)
    /\ pc' = "done"
    /\ UNCHANGED <<feature, filter, features, features0, mbfilter, patch,
                   layerFeatures, mapSources, catalog, layer, registry, calls,
                   utm_zone, north, length, srcUnits, destUnits,
                   objA, objB, deep, point>>

NextZOrder == GetLayersByZOrder

SpecZOrder == InitZOrder /\ [][NextZOrder]_vars

\* The keys of the catalog whose node has no children and is on.
OnLayers ==
    {i \in 1..Len(catalog) :
        /\ catalog[i] # Null
        /\ catalog[i].children = Undefined
        /\ isLayerOn(mapSources, catalog[i])}

\* C9: getLayersByZOrder returns exactly one entry for each catalog node
\* that has no children and for which isLayerOn is true, and none for any
\* other node; each entry carries the zIndex of the map source named by the
\* node's first SourceRef; and the entries are in non-increasing zIndex.
C9_LayersByZOrder ==
    pc = "done"
    => /\ Len(ret) = Cardinality(OnLayers)
       /\ {ret[k].layer.id : k \in 1..Len(ret)} = OnLayers
       /\ \A k \in 1..Len(ret) :
            /\ ret[k].layer = catalog[ret[k].layer.id]
            /\ ret[k].zIndex =
                 mapSources.o[ret[k].layer.src[1].mapSourceName].zIndex
       /\ \A k \in 1..(Len(ret) - 1) : ret[k].zIndex >= ret[k + 1].zIndex

\* C9 witness: three nodes, the first a group and left out, the second a
\* layer of two map sources entered with the lower zIndex of its first, the
\* third entered before it with a higher zIndex.
C9_Witness ==
    /\ pc = "done"
    /\ Len(catalog) = 3 /\ Len(ret) = 2
    /\ catalog[1] # Null /\ catalog[1].children # Undefined
    /\ ret[1].layer.id = 3 /\ ret[2].layer.id = 2
    /\ Len(catalog[2].src) = 2
    /\ catalog[2].src[1].mapSourceName # catalog[2].src[2].mapSourceName
    /\ ret[2].zIndex = 1
    /\ mapSources.o[catalog[2].src[2].mapSourceName].zIndex = 2

(***************************************************************************)
(* configureProjections(p4).  p4.defs(name, def) stores a definition under *)
(* name and p4.defs(name) returns the one stored; a step of the model is   *)
(* one p4.defs(name, def) call.                                            *)
(***************************************************************************)
FirstZone == 1
LastZone == 60
EpsgBase == 32600
SouthOffset == 100

Digit(d) == <<"0", "1", "2", "3", "4", "5", "6", "7", "8", "9">>[d + 1]
RECURSIVE numberToString(_)
\* The decimal digits of a number >= 0, as string concatenation writes it.
numberToString(n) ==
    IF n < 10 THEN Digit(n) ELSE numberToString(n \div 10) \o Digit(n % 10)

Hemispheres == <<"north", "south">>

\* epsg_code without the offset of the southern zones.
epsgCodeNoOffset(zone, hemi) == EpsgBase + zone

\* epsg_code = 32600 + utm_zone + (north === 'north' ? 0 : 100)
epsgCode(zone, hemi) ==
    EpsgBase + zone + (IF hemi = "north" THEN 0 ELSE SouthOffset)

projId(zone, hemi) == "EPSG:" \o numberToString(epsgCode(zone, hemi))
projAlias(zone, hemi) ==
    "UTM" \o numberToString(zone) \o (IF hemi = "north" THEN "N" ELSE "S")
projString(zone, hemi) ==
    "+proj=utm +zone=" \o numberToString(zone) \o " +" \o hemi
        \o "+datum=WGS84 +units=m +no_defs"

\* p4.defs(name, def): the table with def stored under name.
defs(reg, name, def) ==
    [k \in DOMAIN reg \cup {name} |-> IF k = name THEN def ELSE reg[k]]

InitProj ==
    /\ pc = "id"
    /\ utm_zone = FirstZone
    /\ north = 1
    /\ registry = [k \in {} |-> ""]
    /\ calls = <<>>
    /\ ret = NoRet
    /\ feature = Undefined /\ filter = <<>>
    /\ features = <<>> /\ features0 = <<>> /\ mbfilter = <<>> /\ patch = <<>>
    /\ layerFeatures = <<>> /\ mapSources = Undefined /\ catalog = <<>>
    /\ layer = Undefined
    /\ NoOtherCall

ProjFrame ==
    UNCHANGED <<ret, feature, filter, features, features0, mbfilter, patch,
                layerFeatures, mapSources, catalog, layer,
                length, srcUnits, destUnits, objA, objB, deep, point>>

\* p4.defs(proj_id, proj_string)
DefineId ==
    /\ pc = "id"
    /\ LET hemi == Hemispheres[north]
           proj_id == projId(utm_zone, hemi)
           proj_string == projString(utm_zone, hemi)
       IN  /\ registry' = defs(registry, proj_id, proj_string)
           /\ calls' = Append(calls, [name |-> proj_id, def |-> proj_string])
    /\ pc' = "alias"
    /\ UNCHANGED <<utm_zone, north>>
    /\ ProjFrame

\* p4.defs(proj_alias, p4.defs(proj_id)), and the step of the two loops.
DefineAlias ==
    /\ pc = "alias"
    /\ LET hemi == Hemispheres[north]
           proj_id == projId(utm_zone, hemi)
           proj_alias == projAlias(utm_zone, hemi)
       IN  /\ registry' = defs(registry, proj_alias, registry[proj_id])
           /\ calls' = Append(calls, [name |-> proj_alias, def |-> registry[proj_id]])
    /\ IF north < Len(Hemispheres)
       THEN /\ north' = north + 1
            /\ UNCHANGED utm_zone
            /\ pc' = "id"
       ELSE /\ north' = 1
            /\ utm_zone' = utm_zone + 1
            /\ pc' = IF utm_zone + 1 <= LastZone THEN "id" ELSE "done"
    /\ ProjFrame

NextProj ==
    \/ DefineId
    \/ DefineAlias

SpecProj == InitProj /\ [][NextProj]_vars

ExpectedIds ==
    {"EPSG:" \o numberToString(32600 + zone + off) : zone \in 1..60, off \in {0, 100}}
ExpectedAliases ==
    {"UTM" \o numberToString(zone) \o h : zone \in 1..60, h \in {"N", "S"}}

\* C10: from an empty registry configureProjections makes 240 define calls,
\* zone by zone and north before south within a zone, and ends with the 120
\* ids "EPSG:" + (32600 + zone + (0 | 100)) and the 120 aliases
\* "UTM" + zone + (N | S), zone in 1..60, no name defined twice, each alias
\* defined right after its id and mapped to the same definition.
C10_Projections ==
    pc = "done"
    => /\ Len(calls) = 240
       /\ \A zone \in 1..60 : \A h \in 1..2 :
            LET i == 4 * (zone - 1) + 2 * (h - 1) + 1
                id == "EPSG:" \o numberToString(32600 + zone + (IF h = 1 THEN 0 ELSE 100))
                alias == "UTM" \o numberToString(zone) \o (IF h = 1 THEN "N" ELSE "S")
            IN  /\ calls[i].name = id
                /\ calls[i + 1].name = alias
                /\ registry[alias] = registry[id]
                /\ registry[id] = calls[i].def
       /\ \A i, j \in 1..Len(calls) : i # j => calls[i].name # calls[j].name
       /\ Cardinality(ExpectedIds) = 120
       /\ Cardinality(ExpectedAliases) = 120
       /\ ExpectedIds \cap ExpectedAliases = {}
       /\ DOMAIN registry = ExpectedIds \cup ExpectedAliases

\* C10 witness: the run has ended, UTM15N and EPSG:32615 name the same
\* definition, and the last call defined UTM60S.
C10_Witness ==
    /\ pc = "done"
    /\ Len(calls) = 240
    /\ calls[240].name = "UTM60S"
    /\ "UTM15N" \in DOMAIN registry
    /\ registry["UTM15N"] = registry["EPSG:32615"]
    /\ registry["EPSG:32715"] = "+proj=utm +zone=15 +south+datum=WGS84 +units=m +no_defs"

(***************************************************************************)
(* Unit conversion: EQUIVALENT_METERS, convertLength, convertArea.         *)
(*                                                                         *)
(* A number is NaN or a fraction n / d in lowest terms with d > 0: the     *)
(* arithmetic is that of the reals, without the rounding of a double.      *)
(***************************************************************************)
NaN == [t |-> "number", nan |-> TRUE]

RECURSIVE GCD(_, _)
GCD(a, b) == IF b = 0 THEN a ELSE GCD(b, a % b)

Abs(n) == IF n < 0 THEN -n ELSE n

Frac(n, d) ==
    LET g == GCD(Abs(n), d)
    IN  [t |-> "number", n |-> n \div g, d |-> d \div g]

\* ToNumber(a) is NaN: a is NaN itself or undefined.
NotANumber(a) == a.t # "number" \/ "nan" \in DOMAIN a

\* a * b
Times(a, b) ==
    IF NotANumber(a) \/ NotANumber(b) THEN NaN
    ELSE Frac(a.n * b.n, a.d * b.d)

\* a / b. The divisor is an entry of EQUIVALENT_METERS or a power of one
\* (positive), or NaN.
Over(a, b) ==
    IF NotANumber(a) \/ NotANumber(b) THEN NaN
    ELSE Frac(a.n * b.d, a.d * b.n)

\* Math.pow(a, 2)
pow2(a) == Times(a, a)

EQUIVALENT_METERS ==
    [ft |-> Frac(3048, 10000),
     yd |-> Frac(9144, 10000),
     mi |-> Frac(1609347, 1000),
     in |-> Frac(254, 10000),
     m  |-> Frac(1, 1),
     km |-> Frac(1000, 1),
     ch |-> Frac(2011684, 100000),
     a  |-> Frac(6363, 100),
     h  |-> Frac(100, 1)]

\* length * EQUIVALENT_METERS[srcUnits] / EQUIVALENT_METERS[destUnits]
convertLength(len, src, dest) ==
    Over(Times(len, Get(EQUIVALENT_METERS, src)), Get(EQUIVALENT_METERS, dest))

\* area * Math.pow(EQUIVALENT_METERS[srcUnits], 2)
\*      / Math.pow(EQUIVALENT_METERS[destUnits], 2)
convertArea(area, src, dest) ==
    Over(Times(area, pow2(Get(EQUIVALENT_METERS, src))),
         pow2(Get(EQUIVALENT_METERS, dest)))

\* The lengths and the units of the calls. Of the nine units of the table
\* the calls use those whose squares and products stay within the integers
\* of the model checker; "cm" and "mile" are not keys of the table.
Lengths == {Frac(n, 1) : n \in -NumRange..NumRange}
UnitsUsed == {"m", "km", "h", "cm", "mile"}

InitConvert ==
    /\ pc = "call"
    /\ ret = NoRet
    /\ length \in Lengths
    /\ srcUnits \in UnitsUsed
    /\ destUnits \in UnitsUsed
    /\ objA = <<>> /\ objB = <<>> /\ deep = FALSE /\ point = <<>>
    /\ feature = Undefined /\ filter = <<>>
    /\ features = <<>> /\ features0 = <<>> /\ mbfilter = <<>> /\ patch = <<>>
    /\ layerFeatures = <<>> /\ mapSources = Undefined /\ catalog = <<>>
    /\ layer = Undefined /\ registry = <<>> /\ calls = <<>>
    /\ utm_zone = 0 /\ north = 0

ConvertFrame ==
    UNCHANGED <<feature, filter, features, features0, mbfilter, patch,
                layerFeatures, mapSources, catalog, layer, registry, calls,
                utm_zone, north, length, srcUnits, destUnits,
                objA, objB, deep, point>>

\* convertLength(length, srcUnits, destUnits): no statement of it throws.
ConvertLength ==
    /\ pc = "call"
    /\ ret' = Ret(convertLength(length, srcUnits, destUnits))
    /\ pc' = "length"
    /\ ConvertFrame

\* convertArea(area, srcUnits, destUnits): no statement of it throws.
ConvertArea ==
    /\ pc = "call"
    /\ ret' = Ret(convertArea(length, srcUnits, destUnits))
    /\ pc' = "area"
    /\ ConvertFrame

NextConvert ==
    \/ ConvertLength
    \/ ConvertArea

SpecConvert == InitConvert /\ [][NextConvert]_vars

(***************************************************************************)
(* Claim about convertLength and convertArea (checked under SpecConvert).  *)
(***************************************************************************)
UnitSymbols == {"ft", "yd", "mi", "in", "m", "km", "ch", "a", "h"}

\* C11: when srcUnits or destUnits is not one of the nine unit symbols,
\* convertLength and convertArea fail with an error: they return no value.
C11_UnknownUnitFails ==
    (pc \in {"length", "area"}
     /\ (srcUnits \notin UnitSymbols \/ destUnits \notin UnitSymbols))
    => ret.thrown

(***************************************************************************)
(* objectsDiffer.                                                          *)
(*                                                                         *)
(* An object is its entries in Object.keys order; a value of a key is a    *)
(* number, a string, null or an object.                                    *)
(***************************************************************************)
MaxKeys == 2         \* most keys of an object given to objectsDiffer

Object(entries) == [t |-> "object", e |-> entries]

\* The characters of the strings of the model.
Chars(s) ==
    CASE s = "" -> <<>>
      [] s = "x" -> <<"x">>
      [] s = "xy" -> <<"x", "y">>

\* The own enumerable properties of a value that is not undefined or null:
\* those of an object, the indices of a string, none of a number.
entriesOf(v) ==
    IF v.t = "object" THEN v.e
    ELSE IF v.t = "string"
        THEN [i \in 1..Len(Chars(v.s)) |->
                [key |-> numberToString(i - 1), val |-> Str(Chars(v.s)[i])]]
    ELSE <<>>

\* Object.keys(v) of such a value.
keysOf(v) == [i \in 1..Len(entriesOf(v)) |-> entriesOf(v)[i].key]

\* v[key]
prop(v, key) ==
    LET e == entriesOf(v)
    IN  IF \E i \in 1..Len(e) : e[i].key = key
        THEN e[CHOOSE i \in 1..Len(e) : e[i].key = key].val
        ELSE Undefined

\* typeof(v): typeof(null) is 'object'.
typeof(v) == IF v.t = "null" THEN "object" ELSE v.t

\* v == null
LooseNull(v) == v.t \in {"null", "undefined"}

RECURSIVE objectsDiffer(_, _, _)
\* objectsDiffer(objA, objB, deep), deepIsTrue being deep === true.
\* Object.keys throws a TypeError on undefined and on null. Every path
\* through the switch returns or throws: the cases 'string' and 'number' fall
\* through to 'object', and 'object' falls through to default. So the first
\* loop ends at the first key of objA, and the second loop runs only when
\* objA has no key. A recursive call with the arguments of its caller (a
\* one-character string and itself) never returns: RangeError.
objectsDiffer(a_obj, b_obj, deepIsTrue) ==
    IF LooseNull(a_obj) \/ LooseNull(b_obj) THEN Throw
    ELSE
    LET a_keys == keysOf(a_obj)
        b_keys == keysOf(b_obj)
        key == a_keys[1]
        a_val == prop(a_obj, key)
        b_val == prop(b_obj, key)
        b_type == typeof(b_val)
        recursion ==
            IF <<a_val, b_val>> = <<a_obj, b_obj>> THEN Throw
            ELSE objectsDiffer(a_val, b_val, TRUE)
    IN  IF Len(a_keys) > 0
        THEN IF b_type = "undefined" THEN Ret(TRUE)
             ELSE IF b_type \in {"string", "number"}
                     /\ ~StrictEquals(a_val, b_val) THEN Ret(TRUE)
             ELSE IF b_type \in {"string", "number", "object"}
                 THEN IF LooseNull(b_val) /\ ~LooseNull(a_val) THEN Ret(TRUE)
                      ELSE IF deepIsTrue /\ recursion.thrown THEN Throw
                      ELSE Ret(TRUE)
             ELSE Ret(TRUE)
        ELSE Ret(\E i \in 1..Len(b_keys) :
                    \A j \in 1..Len(a_keys) : a_keys[j] # b_keys[i])

\* The objects of the calls: at most MaxKeys keys, each with a number, a
\* string, null, or an object of at most one key.
ObjectKeys == {"a", "b"}
FlatValues == {Num(0), Num(1), Str(""), Str("x"), Str("xy")}
ObjectValues ==
    FlatValues \cup {Null, Object(<<>>), Object(<<[key |-> "a", val |-> Num(0)]>>)}
ObjectKeySeqs(n) ==
    {ks \in [1..n -> ObjectKeys] : \A i, j \in 1..n : i # j => ks[i] # ks[j]}
Objects ==
    UNION {{Object([i \in 1..n |-> [key |-> ks[i], val |-> vs[i]]]) :
                ks \in ObjectKeySeqs(n), vs \in [1..n -> ObjectValues]} :
           n \in 0..MaxKeys}

InitDiffer ==
    /\ pc = "call"
    /\ ret = NoRet
    /\ objA \in Objects
    /\ objB \in Objects
    /\ deep \in BOOLEAN
    /\ length = 0 /\ srcUnits = "" /\ destUnits = "" /\ point = <<>>
    /\ feature = Undefined /\ filter = <<>>
    /\ features = <<>> /\ features0 = <<>> /\ mbfilter = <<>> /\ patch = <<>>
    /\ layerFeatures = <<>> /\ mapSources = Undefined /\ catalog = <<>>
    /\ layer = Undefined /\ registry = <<>> /\ calls = <<>>
    /\ utm_zone = 0 /\ north = 0

ObjectsDiffer ==
    /\ pc = "call"
    /\ ret' = objectsDiffer(objA, objB, deep)
    /\ pc' = "done"
    /\ UNCHANGED <<feature, filter, features, features0, mbfilter, patch,
                   layerFeatures, mapSources, catalog, layer, registry, calls,
                   utm_zone, north, length, srcUnits, destUnits,
                   objA, objB, deep, point>>

NextDiffer == ObjectsDiffer

SpecDiffer == InitDiffer /\ [][NextDiffer]_vars

(***************************************************************************)
(* Claim about objectsDiffer (checked under SpecDiffer).                   *)
(***************************************************************************)
\* Every value of the object is a string or a number.
Flat(o) == \A i \in 1..Len(o.e) : o.e[i].val \in FlatValues

KeySet(o) == {o.e[i].key : i \in 1..Len(o.e)}

\* The same keys, and the identical value under every key.
Same(a, b) ==
    /\ KeySet(a) = KeySet(b)
    /\ \A k \in KeySet(a) : prop(a, k) = prop(b, k)

\* C12: for flat objects (string and number values) objectsDiffer returns
\* false when the two have the same keys and identical values, an object
\* compared with itself included, and true when a key is missing on either
\* side or a value differs.
C12_ObjectsDiffer ==
    (pc = "done" /\ Flat(objA) /\ Flat(objB))
    => ret = Ret(~Same(objA, objB))

(***************************************************************************)
(* getUtmZone, called once configureProjections has filled the registry.   *)
(*                                                                         *)
(* The coordinates of a point are in tenths of a degree, so pt[0] / 6.0 is *)
(* pt[0] / 60 and Math.floor of it plus 30 is the integer division (which  *)
(* rounds down for a negative dividend too) plus 30.                       *)
(***************************************************************************)
getUtmZone(pt) ==
    LET zone == ((pt[1] \div 60) + 30) + 1
        isNorth == IF pt[2] > 0 THEN "N" ELSE "S"
    IN  "UTM" \o numberToString(zone) \o isNorth

\* Longitudes from -180 to 180 degrees and latitudes on both sides of the
\* equator and on it.
Longitudes == {-1800, -1799, -931, -1, 0, 59, 60, 1799, 1800}
Latitudes == {-450, 0, 450}

InitUtm ==
    /\ pc = "id"
    /\ utm_zone = FirstZone
    /\ north = 1
    /\ registry = [k \in {} |-> ""]
    /\ calls = <<>>
    /\ ret = NoRet
    /\ point \in Longitudes \X Latitudes
    /\ length = 0 /\ srcUnits = "" /\ destUnits = ""
    /\ objA = <<>> /\ objB = <<>> /\ deep = FALSE
    /\ feature = Undefined /\ filter = <<>>
    /\ features = <<>> /\ features0 = <<>> /\ mbfilter = <<>> /\ patch = <<>>
    /\ layerFeatures = <<>> /\ mapSources = Undefined /\ catalog = <<>>
    /\ layer = Undefined

\* getUtmZone(point), after the last step of configureProjections.
GetUtmZone ==
    /\ pc = "done"
    /\ ret' = getUtmZone(point)
    /\ pc' = "zone"
    /\ UNCHANGED <<feature, filter, features, features0, mbfilter, patch,
                   layerFeatures, mapSources, catalog, layer, registry, calls,
                   utm_zone, north, length, srcUnits, destUnits,
                   objA, objB, deep, point>>

NextUtm ==
    \/ DefineId
    \/ DefineAlias
    \/ GetUtmZone

SpecUtm == InitUtm /\ [][NextUtm]_vars

(***************************************************************************)
(* Claim about getUtmZone (checked under SpecUtm).                         *)
(***************************************************************************)
\* C13: for a point with a longitude from -180 to 180 degrees and any
\* latitude, the label getUtmZone returns is one of the 120 aliases
\* configureProjections registers (its zone is 1 .. 60), so the registry has
\* a definition under it.
C13_UtmZoneRegistered ==
    (pc = "zone" /\ point[1] >= -1800 /\ point[1] <= 1800)
    => /\ ret \in ExpectedAliases
       /\ ret \in DOMAIN registry

====
